---------------------------- MODULE Spec2Model ----------------------------
(***************************************************************************)
(* Model of static/js/script.js, class YouTubeDownloader (the revision     *)
(* that starts at line 281): the job submitter (startDownload) and the     *)
(* progress poller (monitorProgress), run by the browser's event loop.     *)
(*                                                                         *)
(* Every handler runs to its next await without interruption, so a handler *)
(* is cut into one action per stretch between awaits.  The methods of the  *)
(* class are operators from the state of the page to the state after the   *)
(* call; an action composes them in the order of the code.                 *)
(***************************************************************************)
EXTENDS Integers, Sequences, FiniteSets, TLC

(***************************************************************************)
(* Bounds of the model.                                                    *)
(***************************************************************************)
\* jobs created plus /download-mp3 requests in flight (job ids are 1..MaxSubmits)
MaxSubmits == 2
\* /progress requests in flight at one time
MaxPolls == 2
\* grace-delay timeouts pending at one time
MaxTimers == 2
\* the count of the terminal handlings of one job stops here
MaxRuns == 2
\* /info requests in flight plus paste timeouts pending
MaxInfo == 2
\* /downloads-list requests in flight
MaxLists == 2
\* DELETE requests in flight
MaxDeletes == 1
\* requests and timeouts outstanding at one time in SpecRefresh
MaxPending == 2
\* view counts up to MaxBillions * 10^9 + 999999999
MaxBillions == 4
\* twentieths counted from zero at each scale of ViewCounts
MaxSteps == 40
\* notifications created in SpecNote
MaxNotes == 3

Jobs == 1 .. MaxSubmits
\* the value of currentDownloadId and progressInterval before any job: null
Null == 0

(***************************************************************************)
(* JavaScript values: a field of a JSON body is undefined (absent), a      *)
(* boolean, a number or a string.  A string is the sequence of the pieces  *)
(* it is made of, so that String.includes is membership of a piece.        *)
(***************************************************************************)
Undefined == [t |-> "undefined"]
Bool(b) == [t |-> "boolean", v |-> b]
Num(n) == [t |-> "number", v |-> n]
Str(s) == [t |-> "string", v |-> s]
NaN == [t |-> "NaN"]

\* ToBoolean: undefined, false, 0, NaN and "" are falsy
Truthy(x) ==
    CASE x.t = "undefined" -> FALSE
      [] x.t = "NaN" -> FALSE
      [] x.t = "boolean" -> x.v
      [] x.t = "number" -> x.v /= 0
      [] x.t = "string" -> x.v /= << >>

\* a || b
OrElse(a, b) == IF Truthy(a) THEN a ELSE b

\* the pieces of a value converted to a string, as in 'Download failed: ' + x
ToStr(x) ==
    CASE x.t = "undefined" -> << "undefined" >>
      [] x.t = "NaN" -> << "NaN" >>
      [] x.t = "boolean" -> << IF x.v THEN "true" ELSE "false" >>
      [] x.t = "string" -> x.v

\* s.includes(piece), for a string s
Includes(s, piece) == \E i \in 1 .. Len(s.v) : s.v[i] = piece

\* Math.round(x): the model's numbers are integers; undefined gives NaN
MathRound(x) == IF x.t = "number" THEN x ELSE NaN

(***************************************************************************)
(* The state of the page: the fields of the YouTubeDownloader instance,    *)
(* the DOM elements its methods write, the browser's table of timers, and  *)
(* a log of what the handler that ran last showed and requested.           *)
(*   currentDownloadId, progressInterval   fields of the instance          *)
(*   downloadBtnDisabled                   #downloadBtn.disabled           *)
(*   loadingSpinnerHidden                  #loadingSpinner has 'hidden'    *)
(*   progressSectionHidden                 #progressSection has 'hidden'   *)
(*   progressFill, progressText, progressStatus   the progress elements    *)
(*   handles      interval handles handed out by setInterval so far        *)
(*   intervals    handles of the intervals created and not cleared         *)
(*   timeouts     the number of grace-delay timeouts pending               *)
(*   notified     notifications shown by the last handler, in order        *)
(*   listRequests loadDownloads calls made by the last handler             *)
(*   consoleErrors  console.error calls made by the last handler           *)
(***************************************************************************)
VARIABLES
    app,            \* the page, a record of the fields above
    dlInFlight,     \* /download-mp3 requests awaiting their response
    jobs,           \* jobs the server has created so far (ids 1..jobs)
    server,         \* server[j]: the state of job j at the server
    pollInFlight,   \* pollInFlight[id]: /progress/<id> requests awaiting a response
    pollStale,      \* of these, answered by the server before the job ended
    \* history of a run (SpecH); the code reads none of it
    observed,       \* whether the run keeps the log of the handler that ran last
    timeoutJobs,    \* for each pending grace timeout, oldest first, the job whose
                    \* response set it (equal delays fire in the order they were set)
    terminalRuns,   \* terminalRuns[j]: terminal handlings run for job j
    graceElapsed,   \* graceElapsed[j]: a grace timeout set for job j has fired
    \* the comparison of the two response shapes (SpecEq)
    twin,           \* a second page, fed the status shape of what app is fed
    last,           \* the two bodies handled last
    \* the rest of the page (SpecInfo, SpecLib, SpecFn)
    page,           \* the URL field, the video panel, /info requests, paste timers
    library,        \* the downloads list, the audio player, list and delete requests
    calc            \* an input of a utility method with the value it returned

core == << app, dlInFlight, jobs, server, pollInFlight, pollStale >>

history == << timeoutJobs, terminalRuns, graceElapsed >>

elsewhere == << page, library, calc >>

vars == << core, observed, history, twin, last, elsewhere >>

\* constructor(): both fields null; the page as served: button enabled,
\* spinner and progress section hidden, nothing shown yet
InitApp ==
    [ currentDownloadId |-> Null,
      progressInterval |-> Null,
      downloadBtnDisabled |-> FALSE,
      loadingSpinnerHidden |-> TRUE,
      progressSectionHidden |-> TRUE,
      progressFill |-> Num(0),
      progressText |-> Num(0),
      progressStatus |-> "",
      handles |-> 0,
      intervals |-> {},
      timeouts |-> 0,
      notified |-> << >>,
      listRequests |-> 0,
      consoleErrors |-> 0 ]

\* the URL field is empty, the video panel hidden, nothing requested; the
\* clipboard check started by init() has not returned yet
InitPage ==
    [ urlField |-> << >>,
      videoInfoHidden |-> TRUE,
      alreadyDownloadedHidden |-> TRUE,
      infoInFlight |-> 0,
      pasteTimers |-> << >>,
      clipboardPending |-> TRUE,
      requests |-> << >>,
      notifications |-> << >>,
      videoTitle |-> Str(<< >>),
      infoUrls |-> << >> ]

\* the list is not rendered yet, the player is empty and hidden, and the
\* /downloads-list request sent by init() (line 290) is in flight
InitLibrary ==
    [ list |-> [placeholder |-> FALSE, entries |-> << >>],
      playerSrc |-> << >>,
      nowPlayingTitle |-> << >>,
      playerPaused |-> TRUE,
      playerSectionHidden |-> TRUE,
      listInFlight |-> 1,
      deleteInFlight |-> << >>,
      serverFiles |-> { << "song", ".mp3" >> },
      served |-> << >> ]

\* a handler starts with an empty log
Begin(a) == [a EXCEPT !.notified = << >>, !.listRequests = 0, !.consoleErrors = 0]

\* the page a handler leaves: its log is kept in an observed run only
Left(a) == IF observed THEN a ELSE Begin(a)

(***************************************************************************)
(* Methods of YouTubeDownloader.                                           *)
(***************************************************************************)
showNotification(a, msg, type) ==
    [a EXCEPT !.notified = Append(@, [type |-> type, msg |-> msg])]

showError(a, msg) == showNotification(a, msg, "error")

showSuccess(a, msg) == showNotification(a, msg, "success")

showLoading(a) == [a EXCEPT !.loadingSpinnerHidden = FALSE]

hideLoading(a) == [a EXCEPT !.loadingSpinnerHidden = TRUE]

showProgressSection(a) == [a EXCEPT !.progressSectionHidden = FALSE]

hideProgressSection(a) == [a EXCEPT !.progressSectionHidden = TRUE]

\* loadDownloads(): one /downloads-list request
loadDownloads(a) == [a EXCEPT !.listRequests = @ + 1]

\* the button as startDownload leaves it while the request runs
disableDownloadBtn(a) == [a EXCEPT !.downloadBtnDisabled = TRUE]

\* downloadBtn.disabled = false; innerHTML = '... Download'
enableDownloadBtn(a) == [a EXCEPT !.downloadBtnDisabled = FALSE]

\* clearInterval(h): a handle that names no active interval changes nothing
clearInterval(a, h) == [a EXCEPT !.intervals = @ \ {h}]

\* setTimeout(() => { hideProgressSection(); currentDownloadId = null }, 3000)
setGraceTimeout(a) == [a EXCEPT !.timeouts = @ + 1]

updateProgress(a, progress) ==
    [a EXCEPT
        !.progressFill = progress.progress,
        !.progressText = MathRound(progress.progress),
        !.progressStatus =
            IF progress.status = Str(<< "downloading" >>) THEN "Downloading..."
            ELSE IF progress.status = Str(<< "completed" >>) THEN "Completed!"
            ELSE IF progress.status = Str(<< "error" >>) THEN "Error occurred"
            ELSE "Processing..."]

\* monitorProgress(), up to the return of setInterval
monitorProgress(a) ==
    LET a1 == showProgressSection(a)
        h == a1.handles + 1
    IN  [a1 EXCEPT !.handles = h, !.intervals = @ \cup {h}, !.progressInterval = h]

(***************************************************************************)
(* isValidYouTubeUrl.  A URL is the sequence of its pieces (scheme, host   *)
(* labels, "/", path words); a pattern is matched piece by piece.          *)
(***************************************************************************)
\* s starts with the pieces p
StartsWith(s, p) == Len(s) >= Len(p) /\ SubSeq(s, 1, Len(p)) = p

\* (https?:\/\/)
Schemes == { << "http://" >>, << "https://" >> }

\* /^(https?:\/\/)?(www\.)?(youtube\.com|youtu\.?be)\/.+$/
Pattern1(url) ==
    \E s \in Schemes \cup { << >> }, w \in { << >>, << "www." >> },
       h \in { << "youtube.com" >>, << "youtu.be" >>, << "youtube" >> } :
        /\ StartsWith(url, s \o w \o h \o << "/" >>)
        /\ Len(url) > Len(s \o w \o h) + 1

\* /^https?:\/\/(youtu\.be\/|(www\.)?youtube\.com\/(watch|embed|v)\/)/
Pattern2(url) ==
    \E s \in Schemes :
        \/ StartsWith(url, s \o << "youtu.be", "/" >>)
        \/ \E w \in { << >>, << "www." >> }, d \in { "watch", "embed", "v" } :
               StartsWith(url, s \o w \o << "youtube.com", "/", d, "/" >>)

\* /^https?:\/\/music\.youtube\.com\/watch\?v=/
Pattern3(url) ==
    \E s \in Schemes :
        StartsWith(url, s \o << "music.", "youtube.com", "/", "watch", "?v=" >>)

isValidYouTubeUrl(url) == Pattern1(url) \/ Pattern2(url) \/ Pattern3(url)

\* String.trim(): white space at both ends is dropped
RECURSIVE TrimLeft(_)
TrimLeft(s) == IF s /= << >> /\ Head(s) = " " THEN TrimLeft(Tail(s)) ELSE s

RECURSIVE TrimRight(_)
TrimRight(s) ==
    IF s /= << >> /\ s[Len(s)] = " " THEN TrimRight(SubSeq(s, 1, Len(s) - 1)) ELSE s

Trim(s) == TrimLeft(TrimRight(s))

\* what the URL field may hold when startDownload reads it
Urls ==
    { << " " >>,
      << " ", "https://", "music.", "youtube.com", "/", "watch", "?v=", "ID", " " >>,
      << "https://", "example.com", "/", "ID" >> }

(***************************************************************************)
(* startDownload, cut at its await: the part before the fetch, and the     *)
(* part that runs with the response (or with the failure of the request).  *)
(***************************************************************************)
\* a startDownload that only refuses an empty field.  C11 must tell the two apart.
startDownloadRejects_EmptyOnly(value) == Trim(value) = << >>

\* lines 393-394: the URL field is read and validated
startDownloadRejects(value) == Trim(value) = << >> \/ ~isValidYouTubeUrl(Trim(value))

\* lines 394-406: rejected, or spinner shown, button disabled, request sent
startDownloadCall(a, value) ==
    IF startDownloadRejects(value)
    THEN showError(a, << "Please enter a valid YouTube URL" >>)
    ELSE disableDownloadBtn(showLoading(a))

\* lines 437-472: throws when filename is undefined (filename.replace), before
\* anything is appended to the page
showAlreadyDownloaded(a, filename) ==
    IF filename.t /= "string"
    THEN [st |-> a, threw |-> TRUE]
    ELSE [st |-> showNotification(a, filename.v, "already-downloaded"), threw |-> FALSE]

\* lines 429-434: the catch block
startDownloadCatch(a) ==
    enableDownloadBtn(
        showError(hideLoading(a),
            << "Network error. Please check your connection and try again." >>))

\* lines 415-427: the server answered success = false; threw tells that an
\* exception left the block (errorMsg.includes on undefined, or
\* showAlreadyDownloaded)
startDownloadRefused(a, data) ==
    IF data.error.t /= "string"
    THEN [st |-> a, threw |-> TRUE]
    ELSE IF \/ Includes(data.error, "authentication")
            \/ Includes(data.error, "Sign in")
            \/ Includes(data.error, "bot")
    THEN [st |-> enableDownloadBtn(showError(a,
                    IF data.cookie_status = Str(<< "available" >>)
                    THEN << "YouTube is requiring authentication for this video. The app is using cookies but this video may be restricted." >>
                    ELSE << "YouTube is requiring authentication for this video. Some videos require cookies to download." >>)),
          threw |-> FALSE]
    ELSE IF Includes(data.error, "already been downloaded")
    THEN LET r == showAlreadyDownloaded(a, data.existing_file)
         IN  IF r.threw THEN r
             ELSE [st |-> enableDownloadBtn(showError(r.st, data.error.v)),
                   threw |-> FALSE]
    ELSE [st |-> enableDownloadBtn(showError(a, data.error.v)), threw |-> FALSE]

\* startDownloadResponse without its catch block: an exception thrown while
\* the refusal is handled leaves the page as it is.  C8 must tell the two apart.
startDownloadResponse_Uncaught(a, data) ==
    LET a1 == hideLoading(a)
    IN  IF Truthy(data.success)
        THEN showSuccess(
                 monitorProgress([a1 EXCEPT !.currentDownloadId = data.download_id]),
                 << "Download started successfully!" >>)
        ELSE startDownloadRefused(a1, data).st

\* lines 407-428, and 429-434 when they throw: the response has arrived
startDownloadResponse(a, data) ==
    LET a1 == hideLoading(a)
    IN  IF Truthy(data.success)
        THEN showSuccess(
                 monitorProgress([a1 EXCEPT !.currentDownloadId = data.download_id]),
                 << "Download started successfully!" >>)
        ELSE LET r == startDownloadRefused(a1, data)
             IN  IF r.threw THEN startDownloadCatch(r.st) ELSE r.st

(***************************************************************************)
(* The callback of the interval of monitorProgress, cut at its await: the  *)
(* tick sends GET /progress/<currentDownloadId>; the rest runs with the    *)
(* response.                                                               *)
(***************************************************************************)
\* lines 482-502: the response has a finished field
\* progressFinishedShape deaf to the error field: every finished job counts
\* as completed.  C5 must tell the two apart.
progressFinishedShape_ErrorIgnored(a, progress) ==
    LET a1 == updateProgress(a,
                  [ progress |-> OrElse(progress.progress, Num(0)),
                    status |->
                        IF Truthy(progress.finished)
                        THEN Str(<< "completed" >>)
                        ELSE Str(<< "downloading" >>),
                    error |-> progress.error ])
    IN  IF Truthy(progress.finished)
        THEN setGraceTimeout(enableDownloadBtn(
                 loadDownloads(showSuccess(clearInterval(a1, a1.progressInterval),
                                           << "Download completed!" >>))))
        ELSE a1

\* lines 481-502: the response has a finished field
progressFinishedShape(a, progress) ==
    LET a1 == updateProgress(a,
                  [ progress |-> OrElse(progress.progress, Num(0)),
                    status |->
                        IF Truthy(progress.finished)
                        THEN IF Truthy(progress.error)
                             THEN Str(<< "error" >>)
                             ELSE Str(<< "completed" >>)
                        ELSE Str(<< "downloading" >>),
                    error |-> progress.error ])
    IN  IF Truthy(progress.finished)
        THEN LET a2 == clearInterval(a1, a1.progressInterval)
                 a3 == IF Truthy(progress.error)
                       THEN showError(a2, << "Download failed: " >> \o ToStr(progress.error))
                       ELSE loadDownloads(showSuccess(a2, << "Download completed!" >>))
             IN  setGraceTimeout(enableDownloadBtn(a3))
        ELSE a1

\* progressStatusShape without the library refresh on completion.  C6 must
\* tell the two apart.
progressStatusShape_NoRefresh(a, progress) ==
    LET a1 == updateProgress(a, progress)
    IN  IF \/ progress.status = Str(<< "completed" >>)
           \/ progress.status = Str(<< "error" >>)
        THEN LET a2 == clearInterval(a1, a1.progressInterval)
                 a3 == IF progress.status = Str(<< "completed" >>)
                       THEN showSuccess(a2, << "Download completed!" >>)
                       ELSE showError(a2, << "Download failed: " >> \o ToStr(progress.error))
             IN  setGraceTimeout(enableDownloadBtn(a3))
        ELSE a1

\* lines 504-520: the response has no finished field
progressStatusShape(a, progress) ==
    LET a1 == updateProgress(a, progress)
    IN  IF \/ progress.status = Str(<< "completed" >>)
           \/ progress.status = Str(<< "error" >>)
        THEN LET a2 == clearInterval(a1, a1.progressInterval)
                 a3 == IF progress.status = Str(<< "completed" >>)
                       THEN loadDownloads(showSuccess(a2, << "Download completed!" >>))
                       ELSE showError(a2, << "Download failed: " >> \o ToStr(progress.error))
             IN  setGraceTimeout(enableDownloadBtn(a3))
        ELSE a1

\* lines 479-521: progress.finished !== undefined chooses the branch
progressResponse(a, progress) ==
    IF progress.finished /= Undefined
    THEN progressFinishedShape(a, progress)
    ELSE progressStatusShape(a, progress)

\* a catch block that takes the failed request for the failure of the job.
\* C4 must tell the two apart.
progressCatch_AsJobFailure(a) ==
    enableDownloadBtn(
        showError(clearInterval([a EXCEPT !.consoleErrors = @ + 1], a.progressInterval),
                  << "Download failed" >>))

\* lines 522-524: the catch block only logs to the console
progressCatch(a) == [a EXCEPT !.consoleErrors = @ + 1]

\* the grace timeout without the reset of the stored id
graceTimeout_KeepsId(a) ==
    [hideProgressSection(a) EXCEPT !.timeouts = @ - 1]

\* lines 498-501 and 516-519: the callback of the grace timeout
graceTimeout(a) ==
    [hideProgressSection(a) EXCEPT !.currentDownloadId = Null, !.timeouts = @ - 1]

(***************************************************************************)
(* The server, as far as the client sees it.  GET /progress/<id> answers   *)
(* in either shape.  A job runs, then is completed or failed for good.     *)
(***************************************************************************)
FinishedBody(finished, progress, error) ==
    [ finished |-> Bool(finished), status |-> Undefined,
      progress |-> progress, error |-> error ]

StatusBody(status, progress, error) ==
    [ finished |-> Undefined, status |-> Str(<< status >>),
      progress |-> progress, error |-> error ]

RunningBodies ==
    { FinishedBody(FALSE, Num(10), Undefined) }
    \cup { StatusBody(st, Num(10), Undefined) : st \in { "pending", "downloading" } }

CompletedBodies ==
    { FinishedBody(TRUE, Num(100), e) : e \in { Undefined, Str(<< >>) } }
    \cup { StatusBody("completed", Num(100), Undefined) }

ErrorBodies ==
    { FinishedBody(TRUE, Num(10), Str(<< "x" >>)) }
    \cup { StatusBody("error", Num(10), e) : e \in { Undefined, Str(<< "x" >>) } }

\* what a request for job id is answered with now
BodiesOf(id) ==
    IF id = Null THEN ErrorBodies
    ELSE CASE server[id] = "running" -> RunningBodies
           [] server[id] = "completed" -> CompletedBodies
           [] server[id] = "error" -> ErrorBodies

\* answers of POST /download-mp3 with success = false
RefusedBody(error, existing_file, cookie_status) ==
    [ success |-> Bool(FALSE), download_id |-> Null, error |-> error,
      existing_file |-> existing_file, cookie_status |-> cookie_status ]

RefusedBodies ==
    { RefusedBody(e, Undefined, c) :
        e \in { Undefined, Str(<< "x" >>), Str(<< "Sign in" >>) },
        c \in { Undefined, Str(<< "available" >>) } }
    \cup { RefusedBody(Str(<< "already been downloaded" >>), f, Undefined) :
              f \in { Undefined, Str(<< "a.mp3" >>) } }

AcceptedBody(id) ==
    [ success |-> Bool(TRUE), download_id |-> id, error |-> Undefined,
      existing_file |-> Undefined, cookie_status |-> Undefined ]

Sum(f) == LET RECURSIVE S(_)
              S(n) == IF n < 0 THEN 0 ELSE f[n] + S(n - 1)
          IN  S(MaxSubmits)

(***************************************************************************)
(* The initial state and the steps of the page and the server.             *)
(***************************************************************************)
\* the page after the constructor, no request sent, no job at the server
InitCore ==
    /\ app = InitApp
    /\ dlInFlight = 0
    /\ jobs = 0
    /\ server = [j \in Jobs |-> "none"]
    /\ pollInFlight = [id \in 0 .. MaxSubmits |-> 0]
    /\ pollStale = [id \in 0 .. MaxSubmits |-> 0]

InitRest ==
    /\ timeoutJobs = << >>
    /\ terminalRuns = [j \in Jobs |-> 0]
    /\ graceElapsed = [j \in Jobs |-> FALSE]
    /\ twin = InitApp
    /\ last = << >>
    /\ page = InitPage
    /\ library = InitLibrary
    /\ calc = << >>

Init == InitCore /\ observed = FALSE /\ InitRest

\* startDownload() is called with value in the URL field
StartDownload(value) ==
    LET rejected == startDownloadRejects(value)
    IN  /\ rejected \/ jobs + dlInFlight < MaxSubmits
        /\ app' = Left(startDownloadCall(Begin(app), value))
        /\ dlInFlight' = IF rejected THEN dlInFlight ELSE dlInFlight + 1
        /\ UNCHANGED << jobs, server, pollInFlight, pollStale >>

\* the download button is clicked: a disabled button gets no click
ClickDownload ==
    /\ ~app.downloadBtnDisabled
    /\ \E value \in Urls : StartDownload(value)

\* Enter is pressed in the URL field (bindEvents, lines 299-301)
PressEnter == \E value \in Urls : StartDownload(value)

\* POST /download-mp3 is answered with success = true and a new job
SubmitAccepted ==
    /\ dlInFlight > 0
    /\ app' = Left(startDownloadResponse(Begin(app), AcceptedBody(jobs + 1)))
    /\ dlInFlight' = dlInFlight - 1
    /\ jobs' = jobs + 1
    /\ server' = [server EXCEPT ![jobs + 1] = "running"]
    /\ UNCHANGED << pollInFlight, pollStale >>

\* POST /download-mp3 is answered with success = false
SubmitRefused ==
    /\ dlInFlight > 0
    /\ \E data \in RefusedBodies : app' = Left(startDownloadResponse(Begin(app), data))
    /\ dlInFlight' = dlInFlight - 1
    /\ UNCHANGED << jobs, server, pollInFlight, pollStale >>

\* POST /download-mp3 fails: fetch rejects, or the body is not JSON
SubmitFails ==
    /\ dlInFlight > 0
    /\ app' = Left(startDownloadCatch(Begin(app)))
    /\ dlInFlight' = dlInFlight - 1
    /\ UNCHANGED << jobs, server, pollInFlight, pollStale >>

\* an interval fires: GET /progress/<currentDownloadId> is sent
Tick ==
    /\ Sum(pollInFlight) < MaxPolls
    /\ app.intervals /= {}
    /\ app' = Begin(app)
    /\ pollInFlight' = [pollInFlight EXCEPT ![app.currentDownloadId] = @ + 1]
    /\ UNCHANGED << dlInFlight, jobs, server, pollStale >>

\* job j ends at the server; stale of the requests in flight were answered before
ServerFinish ==
    \E j \in Jobs, outcome \in { "completed", "error" }, stale \in 0 .. MaxPolls :
        /\ server[j] = "running"
        /\ stale <= pollInFlight[j]
        /\ server' = [server EXCEPT ![j] = outcome]
        /\ pollStale' = [pollStale EXCEPT ![j] = stale]
        /\ UNCHANGED << app, dlInFlight, jobs, pollInFlight >>

\* a /progress/<id> request in flight, answered before the job ended or not
Answerable(id, stale) ==
    IF stale THEN pollStale[id] > 0 ELSE pollInFlight[id] > pollStale[id]

\* the response of a /progress/<id> request arrives with a JSON body
PollResponse ==
    \E id \in 0 .. MaxSubmits, stale \in BOOLEAN :
        /\ Answerable(id, stale)
        /\ \E progress \in (IF stale THEN RunningBodies ELSE BodiesOf(id)) :
            LET a == progressResponse(Begin(app), progress)
            IN  a.timeouts <= MaxTimers /\ app' = Left(a)
        /\ pollInFlight' = [pollInFlight EXCEPT ![id] = @ - 1]
        /\ pollStale' = [pollStale EXCEPT ![id] = IF stale THEN @ - 1 ELSE @]
        /\ UNCHANGED << dlInFlight, jobs, server >>

\* a /progress/<id> request fails: fetch rejects, or the body is not JSON
PollFails ==
    \E id \in 0 .. MaxSubmits, stale \in BOOLEAN :
        /\ Answerable(id, stale)
        /\ app' = Left(progressCatch(Begin(app)))
        /\ pollInFlight' = [pollInFlight EXCEPT ![id] = @ - 1]
        /\ pollStale' = [pollStale EXCEPT ![id] = IF stale THEN @ - 1 ELSE @]
        /\ UNCHANGED << dlInFlight, jobs, server >>

\* the oldest grace timeout fires
GraceTimeout ==
    /\ app.timeouts > 0
    /\ app' = Left(graceTimeout(Begin(app)))
    /\ UNCHANGED << dlInFlight, jobs, server, pollInFlight, pollStale >>

\* the history and the second page stay as they are
Quiet == UNCHANGED << observed, history, twin, last, elsewhere >>

Next ==
    \/ ClickDownload /\ Quiet
    \/ PressEnter /\ Quiet
    \/ SubmitAccepted /\ Quiet
    \/ SubmitRefused /\ Quiet
    \/ SubmitFails /\ Quiet
    \/ Tick /\ Quiet
    \/ ServerFinish /\ Quiet
    \/ PollResponse /\ Quiet
    \/ PollFails /\ Quiet
    \/ GraceTimeout /\ Quiet

Spec == Init /\ [][Next]_vars

(***************************************************************************)
(* SpecH: the same steps in an observed run, with the history of the run   *)
(* written down beside them.  The history follows from the step: a         *)
(* terminal handling is a step that sets a grace timeout, and the job it   *)
(* handles is the one whose /progress request it consumes.                 *)
(***************************************************************************)
\* the id of the /progress request this step consumes
Consumed == CHOOSE id \in 0 .. MaxSubmits : pollInFlight'[id] < pollInFlight[id]

History ==
    /\ observed' = observed
    /\ timeoutJobs' =
           IF app'.timeouts > app.timeouts THEN Append(timeoutJobs, Consumed)
           ELSE IF app'.timeouts < app.timeouts THEN Tail(timeoutJobs)
           ELSE timeoutJobs
    /\ terminalRuns' =
           IF app'.timeouts > app.timeouts /\ Consumed /= Null
           THEN [terminalRuns EXCEPT ![Consumed] = IF @ < MaxRuns THEN @ + 1 ELSE @]
           ELSE terminalRuns
    /\ graceElapsed' =
           IF app'.timeouts < app.timeouts /\ Head(timeoutJobs) /= Null
           THEN [graceElapsed EXCEPT ![Head(timeoutJobs)] = TRUE]
           ELSE graceElapsed
    /\ UNCHANGED << twin, last, elsewhere >>

InitH == InitCore /\ observed = TRUE /\ InitRest

NextH ==
    \/ ClickDownload /\ History
    \/ PressEnter /\ History
    \/ SubmitAccepted /\ History
    \/ SubmitRefused /\ History
    \/ SubmitFails /\ History
    \/ Tick /\ History
    \/ ServerFinish /\ History
    \/ PollResponse /\ History
    \/ PollFails /\ History
    \/ GraceTimeout /\ History

SpecH == InitH /\ [][NextH]_vars

(***************************************************************************)
(* SpecEq: two pages side by side, under a server that may answer          *)
(* anything at any time.  Both are driven alike; each /progress response   *)
(* reaches app in the finished shape and twin in the status shape that     *)
(* says the same.  last holds the two bodies of the step.                  *)
(***************************************************************************)
\* every body with a finished field
FinishedBodies ==
    { FinishedBody(f, p, e) :
        f \in BOOLEAN, p \in { Undefined, Num(10) },
        e \in { Undefined, Str(<< >>), Str(<< "x" >>) } }

\* the status values that say what the finished-shape body f says: not
\* finished is pending or downloading; finished with an error is error;
\* finished without one is completed
StatusesFor(f) ==
    IF ~Truthy(f.finished) THEN { "pending", "downloading" }
    ELSE IF Truthy(f.error) THEN { "error" }
    ELSE { "completed" }

InitEq == InitCore /\ observed = TRUE /\ InitRest

EqStartDownload ==
    \E value \in Urls :
        /\ startDownloadRejects(value) \/ jobs + dlInFlight < MaxSubmits
        /\ app' = startDownloadCall(Begin(app), value)
        /\ twin' = startDownloadCall(Begin(twin), value)
        /\ dlInFlight' = IF startDownloadRejects(value) THEN dlInFlight ELSE dlInFlight + 1
        /\ last' = << >>
        /\ UNCHANGED << jobs, pollInFlight >>

EqSubmitAccepted ==
    /\ dlInFlight > 0
    /\ app' = startDownloadResponse(Begin(app), AcceptedBody(jobs + 1))
    /\ twin' = startDownloadResponse(Begin(twin), AcceptedBody(jobs + 1))
    /\ dlInFlight' = dlInFlight - 1
    /\ jobs' = jobs + 1
    /\ last' = << >>
    /\ UNCHANGED pollInFlight

EqSubmitRefused ==
    /\ dlInFlight > 0
    /\ \E data \in RefusedBodies :
        /\ app' = startDownloadResponse(Begin(app), data)
        /\ twin' = startDownloadResponse(Begin(twin), data)
        /\ last' = << data >>
    /\ dlInFlight' = dlInFlight - 1
    /\ UNCHANGED << jobs, pollInFlight >>

EqSubmitFails ==
    /\ dlInFlight > 0
    /\ app' = startDownloadCatch(Begin(app))
    /\ twin' = startDownloadCatch(Begin(twin))
    /\ dlInFlight' = dlInFlight - 1
    /\ last' = << >>
    /\ UNCHANGED << jobs, pollInFlight >>

EqTick ==
    /\ Sum(pollInFlight) < MaxPolls
    /\ app.intervals /= {}
    /\ app' = Begin(app)
    /\ twin' = Begin(twin)
    /\ pollInFlight' = [pollInFlight EXCEPT ![app.currentDownloadId] = @ + 1]
    /\ last' = << >>
    /\ UNCHANGED << dlInFlight, jobs >>

EqPollResponse ==
    \E id \in 0 .. MaxSubmits, f \in FinishedBodies :
        \E st \in StatusesFor(f) :
            LET a == progressResponse(Begin(app), f)
                b == progressResponse(Begin(twin), StatusBody(st, f.progress, f.error))
            IN  /\ pollInFlight[id] > 0
                /\ a.timeouts <= MaxTimers /\ b.timeouts <= MaxTimers
                /\ app' = a
                /\ twin' = b
                /\ last' = << f, StatusBody(st, f.progress, f.error) >>
                /\ pollInFlight' = [pollInFlight EXCEPT ![id] = @ - 1]
                /\ UNCHANGED << dlInFlight, jobs >>

EqPollFails ==
    \E id \in 0 .. MaxSubmits :
        /\ pollInFlight[id] > 0
        /\ app' = progressCatch(Begin(app))
        /\ twin' = progressCatch(Begin(twin))
        /\ last' = << >>
        /\ pollInFlight' = [pollInFlight EXCEPT ![id] = @ - 1]
        /\ UNCHANGED << dlInFlight, jobs >>

EqGraceTimeout ==
    /\ app.timeouts > 0 \/ twin.timeouts > 0
    /\ app' = IF app.timeouts > 0 THEN graceTimeout(Begin(app)) ELSE Begin(app)
    /\ twin' = IF twin.timeouts > 0 THEN graceTimeout(Begin(twin)) ELSE Begin(twin)
    /\ last' = << >>
    /\ UNCHANGED << dlInFlight, jobs, pollInFlight >>

\* the server's own state and the history are not part of this comparison
EqQuiet == UNCHANGED << server, pollStale, observed, history, elsewhere >>

NextEq ==
    \/ EqStartDownload /\ EqQuiet
    \/ EqSubmitAccepted /\ EqQuiet
    \/ EqSubmitRefused /\ EqQuiet
    \/ EqSubmitFails /\ EqQuiet
    \/ EqTick /\ EqQuiet
    \/ EqPollResponse /\ EqQuiet
    \/ EqPollFails /\ EqQuiet
    \/ EqGraceTimeout /\ EqQuiet

SpecEq == InitEq /\ [][NextEq]_vars

(***************************************************************************)
(* FairSpec: Spec with the scheduling the claims about progress assume.    *)
(* The browser runs every callback that is due (interval ticks, grace      *)
(* timeouts), every /download-mp3 request is answered, every job ends at   *)
(* the server, and for every id the /progress requests keep being answered *)
(* with a JSON body.  The user is under no obligation.                     *)
(***************************************************************************)
\* the response of a /progress/<id> request arrives with a JSON body
PollResponseOf(id) ==
    /\ PollResponse
    /\ pollInFlight'[id] < pollInFlight[id]

Fairness ==
    /\ WF_vars((SubmitAccepted \/ SubmitRefused \/ SubmitFails) /\ Quiet)
    /\ WF_vars(Tick /\ Quiet)
    /\ WF_vars(ServerFinish /\ Quiet)
    /\ WF_vars(GraceTimeout /\ Quiet)
    /\ \A id \in 0 .. MaxSubmits : SF_vars(PollResponseOf(id) /\ Quiet)

FairSpec == Spec /\ Fairness

(***************************************************************************)
(* getVideoInfo, cut at its await, and the handlers that call it.          *)
(***************************************************************************)
\* line 343: the part before the fetch
getVideoInfoCall(a) == showLoading(a)

\* lines 372-375: the catch block
getVideoInfoCatch(a) ==
    showError(hideLoading(a),
        << "Network error. Please check your connection and try again." >>)

\* lines 355-371: the server answered success = false; threw tells that
\* errorMsg.includes was called on undefined
getVideoInfoRefused(a, data) ==
    IF data.error.t /= "string"
    THEN [st |-> a, threw |-> TRUE]
    ELSE [st |-> showError(a,
                    IF \/ Includes(data.error, "authentication")
                       \/ Includes(data.error, "Sign in")
                       \/ Includes(data.error, "bot")
                    THEN IF data.cookie_status = Str(<< "available" >>)
                         THEN << "YouTube is requiring authentication. The app is using cookies but this video may still be restricted." >>
                         ELSE << "YouTube is requiring authentication. Some videos may not be accessible without cookies." >>
                    ELSE IF Includes(data.error, "Private") \/ Includes(data.error, "unavailable")
                    THEN << "This video is private or unavailable." >>
                    ELSE IF Includes(data.error, "Invalid YouTube URL")
                    THEN << "Please enter a valid YouTube URL." >>
                    ELSE data.error.v),
          threw |-> FALSE]

\* lines 349-375: what the response does to the spinner and the notifications
getVideoInfoResponse(a, data) ==
    LET a1 == hideLoading(a)
    IN  IF Truthy(data.success)
        THEN a1
        ELSE LET r == getVideoInfoRefused(a1, data)
             IN  IF r.threw THEN getVideoInfoCatch(r.st) ELSE r.st

\* lines 352-354 and 378-386: what the response does to the video panel
displayVideoInfo(p, data) ==
    IF Truthy(data.success)
    THEN [p EXCEPT !.videoTitle = data.title,
                   !.videoInfoHidden = FALSE,
                   !.alreadyDownloadedHidden = ~Truthy(data.already_downloaded)]
    ELSE p

\* lines 388-390
hideVideoInfo(p) == [p EXCEPT !.videoInfoHidden = TRUE]

\* the requests of a handler are logged like its notifications
BeginPage(p) == [p EXCEPT !.requests = << >>]

\* fetch(endpoint, { body: JSON.stringify({ url }) })
fetchWithUrl(p, endpoint, url) ==
    [p EXCEPT !.requests = Append(@, [endpoint |-> endpoint, url |-> url])]

\* what can be typed, pasted or found in the clipboard
Texts == Urls \cup { << "https://", "youtu.be", "/", "ID" >> }

\* error fields of an answer with success = false
ErrorMessages ==
    { Undefined, Str(<< "x" >>), Str(<< "Sign in" >>), Str(<< "Private" >>),
      Str(<< "Invalid YouTube URL" >>), Str(<< "already been downloaded" >>),
      Str(<< "bot", "already been downloaded" >>) }

InfoBody(success, error, cookie_status, already_downloaded) ==
    [ success |-> success, error |-> error, cookie_status |-> cookie_status,
      already_downloaded |-> already_downloaded, title |-> Str(<< "title" >>) ]

\* answers of POST /info: cookie_status is read for an authentication
\* message only
InfoBodies ==
    { InfoBody(Bool(TRUE), Undefined, Undefined, d) : d \in { Undefined, Bool(TRUE) } }
    \cup { InfoBody(Bool(FALSE), e, Undefined, Undefined) : e \in ErrorMessages }
    \cup { InfoBody(Bool(FALSE), Str(<< "Sign in" >>), Str(<< "available" >>), Undefined) }

\* answers of POST /download-mp3 with success = false, any error field:
\* existing_file comes with "already been downloaded", or is missing
AnyRefusedBodies ==
    { RefusedBody(e, Undefined, Undefined) : e \in ErrorMessages }
    \cup { RefusedBody(Str(<< "Sign in" >>), Undefined, Str(<< "available" >>)) }
    \cup { RefusedBody(e, Str(<< "a.mp3" >>), Undefined) :
              e \in { Str(<< "already been downloaded" >>),
                      Str(<< "bot", "already been downloaded" >>) } }

(***************************************************************************)
(* SpecInfo: the URL field and everything that sends the URL to the        *)
(* server: paste, input, the clipboard check of init(), Enter and the      *)
(* button, with /info and /download-mp3 answered in any way.  last holds   *)
(* what the step handled.  The poller does not tick here.                  *)
(***************************************************************************)
\* the page after load, the log of each handler kept
InitInfo == InitCore /\ observed = TRUE /\ InitRest

Handled(op, data) == << [op |-> op, data |-> data] >>

\* handlePaste (lines 304-309): a valid text starts a 100 ms timeout
InfoHandlePaste ==
    \E text \in Texts :
        /\ isValidYouTubeUrl(text) =>
               Len(page.pasteTimers) + page.infoInFlight < MaxInfo
        /\ page' = IF isValidYouTubeUrl(text)
                   THEN [BeginPage(page) EXCEPT !.pasteTimers = Append(@, text)]
                   ELSE BeginPage(page)
        /\ app' = Begin(app)
        /\ last' = Handled("handlePaste", << >>)
        /\ UNCHANGED << dlInFlight, jobs >>

\* the timeout of handlePaste fires (line 307): getVideoInfo(pastedText)
InfoPasteTimeout ==
    /\ page.pasteTimers /= << >>
    /\ app' = getVideoInfoCall(Begin(app))
    /\ page' = [fetchWithUrl(BeginPage(page), "/info", Head(page.pasteTimers))
                    EXCEPT !.pasteTimers = Tail(@), !.infoInFlight = @ + 1]
    /\ last' = Handled("getVideoInfo", << >>)
    /\ UNCHANGED << dlInFlight, jobs >>

\* handleUrlInput (lines 311-318): the field now holds value
InfoHandleUrlInput ==
    \E value \in Texts :
        LET url == Trim(value)
            p == [BeginPage(page) EXCEPT !.urlField = value]
        IN  /\ isValidYouTubeUrl(url) =>
                   Len(page.pasteTimers) + page.infoInFlight < MaxInfo
            /\ app' = IF isValidYouTubeUrl(url)
                      THEN getVideoInfoCall(Begin(app)) ELSE Begin(app)
            /\ page' = IF isValidYouTubeUrl(url)
                       THEN [fetchWithUrl(p, "/info", url) EXCEPT !.infoInFlight = @ + 1]
                       ELSE hideVideoInfo(p)
            /\ last' = Handled("handleUrlInput", << >>)
            /\ UNCHANGED << dlInFlight, jobs >>

\* checkClipboard (lines 767-777) after its await: readText gave text
InfoCheckClipboard ==
    \E text \in Texts :
        /\ page.clipboardPending
        /\ isValidYouTubeUrl(text) =>
               Len(page.pasteTimers) + page.infoInFlight < MaxInfo
        /\ app' = IF isValidYouTubeUrl(text)
                  THEN getVideoInfoCall(Begin(app)) ELSE Begin(app)
        /\ page' = IF isValidYouTubeUrl(text)
                   THEN [fetchWithUrl(BeginPage(page), "/info", text)
                            EXCEPT !.urlField = text, !.infoInFlight = @ + 1,
                                   !.clipboardPending = FALSE]
                   ELSE [BeginPage(page) EXCEPT !.clipboardPending = FALSE]
        /\ last' = Handled("checkClipboard", << >>)
        /\ UNCHANGED << dlInFlight, jobs >>

\* checkClipboard: readText rejected, the catch block ignores it
InfoClipboardDenied ==
    /\ page.clipboardPending
    /\ app' = Begin(app)
    /\ page' = [BeginPage(page) EXCEPT !.clipboardPending = FALSE]
    /\ last' = Handled("checkClipboard", << >>)
    /\ UNCHANGED << dlInFlight, jobs >>

\* startDownload up to its fetch, on the value the field holds
InfoStartDownload ==
    LET rejected == startDownloadRejects(page.urlField)
    IN  /\ rejected \/ jobs + dlInFlight < MaxSubmits
        /\ app' = startDownloadCall(Begin(app), page.urlField)
        /\ dlInFlight' = IF rejected THEN dlInFlight ELSE dlInFlight + 1
        /\ page' = IF rejected THEN BeginPage(page)
                   ELSE fetchWithUrl(BeginPage(page), "/download-mp3", Trim(page.urlField))
        /\ last' = Handled("startDownload", << >>)
        /\ UNCHANGED jobs

InfoClickDownload == ~app.downloadBtnDisabled /\ InfoStartDownload

InfoPressEnter == InfoStartDownload

\* POST /download-mp3 is answered: a new job, or success = false
InfoSubmitAnswered ==
    \E data \in { AcceptedBody(jobs + 1) } \cup AnyRefusedBodies :
        /\ dlInFlight > 0
        /\ app' = startDownloadResponse(Begin(app), data)
        /\ dlInFlight' = dlInFlight - 1
        /\ jobs' = IF Truthy(data.success) THEN jobs + 1 ELSE jobs
        /\ page' = BeginPage(page)
        /\ last' = Handled("startDownloadResponse", data)

\* POST /download-mp3 fails: fetch rejects, or the body is not JSON
InfoSubmitFails ==
    /\ dlInFlight > 0
    /\ app' = startDownloadCatch(Begin(app))
    /\ dlInFlight' = dlInFlight - 1
    /\ page' = BeginPage(page)
    /\ last' = Handled("startDownloadCatch", << >>)
    /\ UNCHANGED jobs

\* POST /info is answered with a JSON body
InfoAnswered ==
    \E data \in InfoBodies :
        /\ page.infoInFlight > 0
        /\ app' = getVideoInfoResponse(Begin(app), data)
        /\ page' = [displayVideoInfo(BeginPage(page), data) EXCEPT !.infoInFlight = @ - 1]
        /\ last' = Handled("getVideoInfoResponse", data)
        /\ UNCHANGED << dlInFlight, jobs >>

\* POST /info fails: fetch rejects, or the body is not JSON
InfoFails ==
    /\ page.infoInFlight > 0
    /\ app' = getVideoInfoCatch(Begin(app))
    /\ page' = [BeginPage(page) EXCEPT !.infoInFlight = @ - 1]
    /\ last' = Handled("getVideoInfoCatch", << >>)
    /\ UNCHANGED << dlInFlight, jobs >>

\* the poller, the server's jobs, the second page and the library stay put
InfoQuiet ==
    UNCHANGED << server, pollInFlight, pollStale, observed, history, twin, library, calc >>

NextInfo ==
    \/ InfoHandlePaste /\ InfoQuiet
    \/ InfoPasteTimeout /\ InfoQuiet
    \/ InfoHandleUrlInput /\ InfoQuiet
    \/ InfoCheckClipboard /\ InfoQuiet
    \/ InfoClipboardDenied /\ InfoQuiet
    \/ InfoClickDownload /\ InfoQuiet
    \/ InfoPressEnter /\ InfoQuiet
    \/ InfoSubmitAnswered /\ InfoQuiet
    \/ InfoSubmitFails /\ InfoQuiet
    \/ InfoAnswered /\ InfoQuiet
    \/ InfoFails /\ InfoQuiet

SpecInfo == InitInfo /\ [][NextInfo]_vars

(***************************************************************************)
(* The library: loadDownloads and displayDownloads, the audio player,      *)
(* deleteFile.  A file name is the sequence of its pieces; the markup that *)
(* displayDownloads writes is kept as what the browser makes of it.        *)
(***************************************************************************)
\* escapeHtml (lines 702-706): the innerHTML of a text node
escapeHtml(s) ==
    [i \in 1 .. Len(s) |->
        IF s[i] = "&" THEN "&amp;"
        ELSE IF s[i] = "<" THEN "&lt;"
        ELSE IF s[i] = ">" THEN "&gt;"
        ELSE s[i]]

\* the parser's reading of text or of an attribute value: entities decoded
htmlDecode(s) ==
    [i \in 1 .. Len(s) |->
        IF s[i] = "&amp;" THEN "&"
        ELSE IF s[i] = "&lt;" THEN "<"
        ELSE IF s[i] = "&gt;" THEN ">"
        ELSE s[i]]

\* onclick="f('${a}', ...)": a click calls f with the arguments, unless a
\* quote in one of them ends the attribute or the string literal early
onclick(f, arguments) ==
    IF \E k \in 1 .. Len(arguments) : \E i \in 1 .. Len(arguments[k]) :
           arguments[k][i] \in { "'", "\"" }
    THEN [t |-> "SyntaxError"]
    ELSE [t |-> "call", f |-> f,
          arguments |-> [k \in 1 .. Len(arguments) |-> htmlDecode(arguments[k])]]

\* lines 574-605: downloads is undefined or an array of items
displayDownloads(list, downloads) ==
    IF downloads.t = "undefined" \/ Len(downloads.v) = 0
    THEN [placeholder |-> TRUE, entries |-> << >>]
    ELSE [placeholder |-> FALSE,
          entries |->
              [i \in 1 .. Len(downloads.v) |->
                  LET d == downloads.v[i]
                  IN  [ name |-> htmlDecode(escapeHtml(d.name)),
                        play |-> onclick("playFile", << d.filename, escapeHtml(d.name) >>),
                        download |-> onclick("downloadFile", << d.filename >>),
                        delete |-> onclick("deleteFile", << d.filename >>) ]]]

\* audioPlayer.src as read back: the URL resolved against the page, with
\* the characters a path cannot hold percent-encoded
resolveUrl(path) ==
    << "http://host" >> \o [i \in 1 .. Len(path) |-> IF path[i] = " " THEN "%20" ELSE path[i]]

\* String.includes on sequences of pieces
includes(s, f) == \E i \in 1 .. Len(s) - Len(f) + 1 : SubSeq(s, i, i + Len(f) - 1) = f

\* lines 607-624, on the player
playAudio(lib, filename, title) ==
    [lib EXCEPT !.playerSrc = resolveUrl(<< "/play-audio/" >> \o filename),
                !.nowPlayingTitle = title,
                !.playerSectionHidden = FALSE,
                !.playerPaused = FALSE]

\* lines 626-637: pause, rewind, hide the section; src stays
stopAudio(lib) == [lib EXCEPT !.playerPaused = TRUE, !.playerSectionHidden = TRUE]

\* deleteFileResponse without its call of loadDownloads
deleteFileResponse_NoRefresh(a, data) ==
    IF Truthy(data.success)
    THEN showSuccess(a, << "File deleted successfully!" >>)
    ELSE showError(a, OrElse(data.error, Str(<< "Failed to delete file" >>)).v)

\* lines 668-677: what the answer of DELETE does to the notifications
deleteFileResponse(a, data) ==
    IF Truthy(data.success)
    THEN loadDownloads(showSuccess(a, << "File deleted successfully!" >>))
    ELSE showError(a, OrElse(data.error, Str(<< "Failed to delete file" >>)).v)

\* deleteFile that stops the player whatever the server answered
deleteFileStops_AnyAnswer(lib, filename, data) ==
    IF includes(lib.playerSrc, filename) THEN stopAudio(lib) ELSE lib

\* lines 671-674: what it does to the player
deleteFileStops(lib, filename, data) ==
    IF Truthy(data.success) /\ includes(lib.playerSrc, filename)
    THEN stopAudio(lib)
    ELSE lib

\* the loadDownloads calls of a handler become /downloads-list requests
Requested(lib, a) == [lib EXCEPT !.listInFlight = @ + a.listRequests]

\* the files of the library
Filenames ==
    { << "song", ".mp3" >>, << "my-", "song", ".mp3" >>, << "a", " ", "b", ".mp3" >> }

Item(filename) == [filename |-> filename, name |-> SubSeq(filename, 1, Len(filename) - 1)]

Array(s) == [t |-> "array", v |-> s]

\* answers of GET /downloads-list
ListBodies ==
    { [success |-> Bool(FALSE), downloads |-> Undefined],
      [success |-> Bool(TRUE), downloads |-> Undefined],
      [success |-> Bool(TRUE), downloads |-> Array(<< >>)],
      [success |-> Bool(TRUE),
       downloads |-> Array(<< Item(<< "my-", "song", ".mp3" >>), Item(<< "song", ".mp3" >>) >>)],
      [success |-> Bool(TRUE), downloads |-> Array(<< Item(<< "a", " ", "b", ".mp3" >>) >>)] }

\* answers of DELETE /delete/<filename>
DeleteBodies ==
    { [success |-> Bool(TRUE), error |-> Undefined],
      [success |-> Bool(FALSE), error |-> Undefined],
      [success |-> Bool(FALSE), error |-> Str(<< "x" >>)] }

\* answers of GET /progress/<id>, both shapes
PollBodies ==
    { FinishedBody(f, Num(10), e) : f \in BOOLEAN, e \in { Undefined, Str(<< "x" >>) } }
    \cup { StatusBody(st, Num(10), Undefined) : st \in { "downloading", "completed", "error" } }

\* what a /progress body says of the job
Outcome(progress) ==
    IF progress.finished /= Undefined
    THEN IF ~Truthy(progress.finished) THEN "in-progress"
         ELSE IF Truthy(progress.error) THEN "error" ELSE "completed"
    ELSE IF progress.status = Str(<< "completed" >>) THEN "completed"
    ELSE IF progress.status = Str(<< "error" >>) THEN "error"
    ELSE "in-progress"

\* a library that holds one file at most
OneFileBodies ==
    { [success |-> Bool(FALSE), downloads |-> Undefined],
      [success |-> Bool(TRUE), downloads |-> Array(<< >>)],
      [success |-> Bool(TRUE), downloads |-> Array(<< Item(<< "song", ".mp3" >>) >>)] }

(***************************************************************************)
(* The handlers of the library and, beside them, of the poller, under a    *)
(* server that accepts every submission and answers /progress,             *)
(* /downloads-list and DELETE in any way.  last names the handler that ran *)
(* and what it was given.                                                  *)
(***************************************************************************)
\* the 30-second interval of the DOMContentLoaded handler fires (line 870)
LibRefreshTick ==
    LET a == loadDownloads(Begin(app))
    IN  /\ library.listInFlight < MaxLists
        /\ app' = Left(a)
        /\ library' = Requested(library, a)
        /\ last' = Handled("refreshTick", << >>)
        /\ UNCHANGED << dlInFlight, jobs, pollInFlight >>

\* GET /downloads-list is answered (lines 563-568)
LibListAnswered(bodies) ==
    \E data \in bodies :
        /\ library.listInFlight > 0
        /\ app' = Left(IF Truthy(data.success) THEN Begin(app)
                       ELSE [Begin(app) EXCEPT !.consoleErrors = @ + 1])
        /\ library' = [library EXCEPT
                          !.listInFlight = @ - 1,
                          !.list = IF Truthy(data.success)
                                   THEN displayDownloads(@, data.downloads) ELSE @]
        /\ last' = Handled("loadDownloadsResponse", data.success)
        /\ UNCHANGED << dlInFlight, jobs, pollInFlight >>

\* GET /downloads-list fails (lines 569-571)
LibListFails ==
    /\ library.listInFlight > 0
    /\ app' = Left([Begin(app) EXCEPT !.consoleErrors = @ + 1])
    /\ library' = [library EXCEPT !.listInFlight = @ - 1]
    /\ last' = Handled("loadDownloadsCatch", << >>)
    /\ UNCHANGED << dlInFlight, jobs, pollInFlight >>

\* the Play control of a rendered entry is clicked: playFile -> playAudio
LibPlay ==
    \E i \in 1 .. Len(library.list.entries) :
        LET c == library.list.entries[i].play
        IN  /\ c.t = "call"
            /\ library' = playAudio(library, c.arguments[1], c.arguments[2])
            /\ app' = Left(showSuccess(Begin(app), << "Now playing: " >> \o c.arguments[2]))
            /\ last' = Handled("playAudio", c.arguments[1])
            /\ UNCHANGED << dlInFlight, jobs, pollInFlight >>

\* the stop control of the player is clicked: stopAudio
LibStop ==
    /\ ~library.playerSectionHidden
    /\ library' = stopAudio(library)
    /\ app' = Begin(app)
    /\ last' = Handled("stopAudio", << >>)
    /\ UNCHANGED << dlInFlight, jobs, pollInFlight >>

\* the Delete control of a rendered entry is clicked (lines 662-666): the
\* prompt is declined, or the DELETE request is sent
LibDelete ==
    \E i \in 1 .. Len(library.list.entries), confirmed \in BOOLEAN :
        LET c == library.list.entries[i].delete
        IN  /\ c.t = "call"
            /\ confirmed => Len(library.deleteInFlight) < MaxDeletes
            /\ library' = IF confirmed
                          THEN [library EXCEPT !.deleteInFlight = Append(@, c.arguments[1])]
                          ELSE library
            /\ app' = Begin(app)
            /\ last' = Handled(IF confirmed THEN "deleteFile" ELSE "deleteFileDeclined",
                               c.arguments[1])
            /\ UNCHANGED << dlInFlight, jobs, pollInFlight >>

\* DELETE /delete/<filename> is answered (lines 667-677)
LibDeleteAnswered ==
    \E k \in 1 .. Len(library.deleteInFlight), data \in DeleteBodies :
        LET filename == library.deleteInFlight[k]
            a == deleteFileResponse(Begin(app), data)
            lib == [library EXCEPT !.deleteInFlight =
                       SubSeq(@, 1, k - 1) \o SubSeq(@, k + 1, Len(@))]
        IN  /\ library.listInFlight + a.listRequests <= MaxLists
            /\ app' = Left(a)
            /\ library' = Requested(deleteFileStops(lib, filename, data), a)
            /\ last' = Handled(IF Truthy(data.success) THEN "deleteFileSucceeded"
                               ELSE "deleteFileRefused", filename)
            /\ UNCHANGED << dlInFlight, jobs, pollInFlight >>

\* DELETE /delete/<filename> fails (lines 678-680)
LibDeleteFails ==
    \E k \in 1 .. Len(library.deleteInFlight) :
        /\ app' = Left(showError(Begin(app), << "Network error deleting file" >>))
        /\ library' = [library EXCEPT !.deleteInFlight =
                          SubSeq(@, 1, k - 1) \o SubSeq(@, k + 1, Len(@))]
        /\ last' = Handled("deleteFileCatch", library.deleteInFlight[k])
        /\ UNCHANGED << dlInFlight, jobs, pollInFlight >>

\* startDownload up to its fetch (Enter or the button)
LibStartDownload ==
    \E value \in Urls :
        /\ startDownloadRejects(value) \/ jobs + dlInFlight < MaxSubmits
        /\ app' = Left(startDownloadCall(Begin(app), value))
        /\ dlInFlight' = IF startDownloadRejects(value) THEN dlInFlight ELSE dlInFlight + 1
        /\ last' = Handled("startDownload", << >>)
        /\ UNCHANGED << jobs, pollInFlight, library >>

\* POST /download-mp3 is answered with a new job
LibSubmitAccepted ==
    /\ dlInFlight > 0
    /\ app' = Left(startDownloadResponse(Begin(app), AcceptedBody(jobs + 1)))
    /\ dlInFlight' = dlInFlight - 1
    /\ jobs' = jobs + 1
    /\ last' = Handled("startDownloadResponse", << >>)
    /\ UNCHANGED << pollInFlight, library >>

\* POST /download-mp3 is answered without a job, or fails
LibSubmitRefused ==
    /\ dlInFlight > 0
    /\ \/ \E data \in RefusedBodies :
              /\ app' = Left(startDownloadResponse(Begin(app), data))
              /\ last' = Handled("startDownloadRefused", << >>)
       \/ /\ app' = Left(startDownloadCatch(Begin(app)))
          /\ last' = Handled("startDownloadCatch", << >>)
    /\ dlInFlight' = dlInFlight - 1
    /\ UNCHANGED << jobs, pollInFlight, library >>

\* an interval of monitorProgress fires
LibTick ==
    /\ Sum(pollInFlight) < MaxPolls
    /\ app.intervals /= {}
    /\ app' = Begin(app)
    /\ pollInFlight' = [pollInFlight EXCEPT ![app.currentDownloadId] = @ + 1]
    /\ last' = Handled("tick", << >>)
    /\ UNCHANGED << dlInFlight, jobs, library >>

\* GET /progress/<id> is answered
LibPollResponse ==
    \E id \in 0 .. MaxSubmits, progress \in PollBodies :
        LET a == progressResponse(Begin(app), progress)
        IN  /\ pollInFlight[id] > 0
            /\ a.timeouts <= MaxTimers
            /\ library.listInFlight + a.listRequests <= MaxLists
            /\ app' = Left(a)
            /\ library' = Requested(library, a)
            /\ pollInFlight' = [pollInFlight EXCEPT ![id] = @ - 1]
            /\ last' = Handled("progressResponse", Outcome(progress))
            /\ UNCHANGED << dlInFlight, jobs >>

\* a grace timeout fires
LibGraceTimeout ==
    /\ app.timeouts > 0
    /\ app' = Left(graceTimeout(Begin(app)))
    /\ last' = Handled("graceTimeout", << >>)
    /\ UNCHANGED << dlInFlight, jobs, pollInFlight, library >>

LibQuiet == UNCHANGED << server, pollStale, observed, history, twin, page, calc >>

(***************************************************************************)
(* SpecLib: the library alone; no job is submitted.                        *)
(***************************************************************************)
NextLib ==
    \/ LibRefreshTick /\ LibQuiet
    \/ LibListAnswered(ListBodies) /\ LibQuiet
    \/ LibListFails /\ LibQuiet
    \/ LibPlay /\ LibQuiet
    \/ LibStop /\ LibQuiet
    \/ LibDelete /\ LibQuiet
    \/ LibDeleteAnswered /\ LibQuiet
    \/ LibDeleteFails /\ LibQuiet

SpecLib == InitInfo /\ [][NextLib]_vars

(***************************************************************************)
(* SpecRefresh: everything that calls loadDownloads, library and poller    *)
(* together.  The library holds one file at most and nothing is played,   *)
(* the log of the handler that ran last is not kept, and no more than      *)
(* MaxPending requests and timeouts are outstanding at a time.             *)
(***************************************************************************)
Pending ==
    dlInFlight + Sum(pollInFlight) + app.timeouts
        + library.listInFlight + Len(library.deleteInFlight)

Room == Pending' <= MaxPending /\ LibQuiet

NextRefresh ==
    \/ LibRefreshTick /\ Room
    \/ LibListAnswered(OneFileBodies) /\ Room
    \/ LibListFails /\ Room
    \/ LibDelete /\ Room
    \/ LibDeleteAnswered /\ Room
    \/ LibDeleteFails /\ Room
    \/ LibStartDownload /\ Room
    \/ LibSubmitAccepted /\ Room
    \/ LibSubmitRefused /\ Room
    \/ LibTick /\ Room
    \/ LibPollResponse /\ Room
    \/ LibGraceTimeout /\ Room

SpecRefresh == Init /\ [][NextRefresh]_vars

(***************************************************************************)
(* The functions without state: formatViews, isValidYouTubeUrl and         *)
(* displayDownloads.  A view count above 2^31 is kept in two parts,        *)
(* billions and units (v = billions * 10^9 + units).                       *)
(***************************************************************************)
\* Number to String for a non-negative integer: its decimal digits
RECURSIVE NumberToString(_)
NumberToString(n) ==
    LET digit == << "0", "1", "2", "3", "4", "5", "6", "7", "8", "9" >>
    IN  IF n < 10 THEN << digit[n + 1] >>
        ELSE NumberToString(n \div 10) \o << digit[(n % 10) + 1] >>

\* toFixed that cuts the digits after the first decimal off
toFixed_Truncating(whole, n, d) ==
    NumberToString(whole) \o << "." >> \o NumberToString(n \div (d \div 10))

\* x.toFixed(1) for the double x nearest to whole + n/d (0 <= n < d, d a
\* power of ten, whole + n/d >= 1): the tenth nearest to x, the larger one
\* when x is halfway.  Where whole + n/d is halfway between two tenths it is
\* N/20 for an odd N: x is N/20 itself when 5 divides N, and otherwise lies
\* above N/20 exactly when the 53-bit significand of N/5 was rounded up.
toFixed(whole, n, d) ==
    LET e == d \div 10
        t == n \div e
        r == n % e
        N == 20 * whole + 2 * t + 1
        q == N \div 5
        bits == CHOOSE L \in 1 .. 31 : 2 ^ (L - 1) <= q /\ (L = 31 \/ q < 2 ^ L)
        shift == << 1, 2, 4, 3 >>[((53 - bits) % 4) + 1]
        above == N % 5 = 0 \/ ((N % 5) * shift) % 5 >= 3
        up == IF 2 * r > e THEN TRUE ELSE IF 2 * r < e THEN FALSE ELSE above
        m == 10 * whole + t + (IF up THEN 1 ELSE 0)
    IN  NumberToString(m \div 10) \o << "." >> \o NumberToString(m % 10)

\* lines 695-700
formatViews(v) ==
    IF v.billions >= 1
    THEN Str(toFixed(v.billions, v.units, 1000000000) \o << "B" >>)
    ELSE IF v.units >= 1000000
    THEN Str(toFixed(v.units \div 1000000, v.units % 1000000, 1000000) \o << "M" >>)
    ELSE IF v.units >= 1000
    THEN Str(toFixed(v.units \div 1000, v.units % 1000, 1000) \o << "K" >>)
    ELSE Num(v.units)

\* view counts: at and just below every twentieth of a thousand, of a
\* million and of a billion, and just below the next suffix
ViewCounts ==
    LET scales == { 1, 1000, 1000000 }
        near == { -1, 0 }
        at(e) == { h * 50 * e + d : h \in 0 .. MaxSteps, d \in near }
                     \cup { 1000 * e - 50 * e + d : d \in near }
        below(x) == { u \in x : 0 <= u /\ u < 1000000000 }
    IN  { [billions |-> 0, units |-> u] :
            u \in below(UNION { at(e) : e \in scales } \cup { 2300000 }) }
            \cup { [billions |-> b, units |-> u] :
                     b \in 1 .. MaxBillions, u \in below(at(1000000)) }

\* strings given to isValidYouTubeUrl, by the kind of link they are
ValidatorInputs ==
    LET schemes == Schemes \cup { << >> }
        www == { << >>, << "www." >> }
        rest == { << "ID" >>, << "ID", "&t=", "1" >> }
        hosts == { << "example.com" >>, << "vimeo.com" >>, << "www.", "google.com" >> }
    IN  [ canonical |->
              { s \o w \o << "youtube.com", "/", "watch", "?v=" >> \o x :
                  s \in schemes, w \in www, x \in rest },
          shortened |->
              { s \o << "youtu.be", "/" >> \o x : s \in schemes, x \in rest },
          embed |->
              { s \o w \o << "youtube.com", "/", "embed", "/" >> \o x :
                  s \in schemes, w \in www, x \in rest },
          music |->
              { s \o << "music.", "youtube.com", "/", "watch", "?v=" >> \o x :
                  s \in schemes, x \in rest },
          unrelated |->
              { s \o h \o << "/", "watch", "?v=" >> \o x :
                  s \in schemes, h \in hosts, x \in rest }
                  \cup { << >>, << "hello" >> } ]

\* values of data.downloads
DownloadArrays ==
    LET filenames == { << "song", ".mp3" >>, << "Don", "'", "t", ".mp3" >> }
    IN  { Undefined, Array(<< >>) }
            \cup { Array(<< Item(f) >>) : f \in filenames }
            \cup { Array(<< Item(f), Item(g) >>) : f, g \in filenames }

(***************************************************************************)
(* SpecFn: each step calls one of the functions; calc holds the call, its  *)
(* argument and what it returned.                                          *)
(***************************************************************************)
\* displayVideoInfo calls formatViews(info.view_count) (line 384)
FnFormatViews ==
    \E v \in ViewCounts :
        /\ calc' = << [f |-> "formatViews", in |-> v, out |-> formatViews(v)] >>
        /\ UNCHANGED library

FnIsValidYouTubeUrl ==
    \E kind \in DOMAIN ValidatorInputs : \E url \in ValidatorInputs[kind] :
        /\ calc' = << [f |-> "isValidYouTubeUrl", in |-> url, kind |-> kind,
                       out |-> isValidYouTubeUrl(url)] >>
        /\ UNCHANGED library

\* loadDownloads calls displayDownloads(data.downloads) (line 566)
FnDisplayDownloads ==
    \E downloads \in DownloadArrays :
        /\ calc' = << [f |-> "displayDownloads", in |-> downloads] >>
        /\ library' = [library EXCEPT !.list = displayDownloads(@, downloads)]

FnQuiet == UNCHANGED << core, observed, history, twin, last, page >>

NextFn ==
    \/ FnFormatViews /\ FnQuiet
    \/ FnIsValidYouTubeUrl /\ FnQuiet
    \/ FnDisplayDownloads /\ FnQuiet

SpecFn == InitInfo /\ [][NextFn]_vars

(***************************************************************************)
(* Notifications as elements of the page.  page.notifications holds every  *)
(* element created so far: whether it is in the document (parentNode),     *)
(* whether its timeout is pending, and how often it was taken out.         *)
(***************************************************************************)
\* the timeout callback without its test of parentNode
removeOnTimeout_Unguarded(n) ==
    [n EXCEPT !.parentNode = FALSE, !.timeout = FALSE, !.removed = @ + 1]

\* lines 761-765 and 467-471: the timeout callback of a notification
removeOnTimeout(n) ==
    IF n.parentNode
    THEN [n EXCEPT !.parentNode = FALSE, !.timeout = FALSE, !.removed = @ + 1]
    ELSE [n EXCEPT !.timeout = FALSE]

\* a handler calls showNotification (lines 730-765) or showAlreadyDownloaded
\* (lines 437-472): the element is appended and its timeout is set
NoteShow ==
    \E n \in { [className |-> "notification", text |-> << "Download started!" >>,
                close |-> TRUE, delay |-> 5000],
               [className |-> "notification",
                text |-> << "Please enter a valid YouTube URL" >>,
                close |-> TRUE, delay |-> 5000],
               [className |-> "already-downloaded-notification",
                text |-> << "song", ".mp3" >>, close |-> FALSE, delay |-> 8000] } :
        /\ Len(page.notifications) < MaxNotes
        /\ page' = [page EXCEPT !.notifications =
                       Append(@, [className |-> n.className, text |-> n.text,
                                  close |-> n.close, delay |-> n.delay,
                                  parentNode |-> TRUE, timeout |-> TRUE, removed |-> 0])]
        /\ last' = Handled(IF n.close THEN "showNotification" ELSE "showAlreadyDownloaded",
                           Len(page.notifications) + 1)
        /\ UNCHANGED << app, dlInFlight, jobs >>

\* the close button of a notification in the document is clicked (line 737)
NoteClose ==
    \E i \in 1 .. Len(page.notifications) :
        /\ page.notifications[i].parentNode
        /\ page.notifications[i].close
        /\ page' = [page EXCEPT !.notifications[i].parentNode = FALSE,
                                !.notifications[i].removed = @ + 1]
        /\ last' = Handled("close", i)
        /\ UNCHANGED << app, dlInFlight, jobs >>

\* the timeout of a notification fires
NoteTimeout ==
    \E i \in 1 .. Len(page.notifications) :
        /\ page.notifications[i].timeout
        /\ page' = [page EXCEPT !.notifications[i] = removeOnTimeout(@)]
        /\ last' = Handled("timeout", i)
        /\ UNCHANGED << app, dlInFlight, jobs >>

NextNote ==
    \/ NoteShow /\ InfoQuiet
    \/ NoteClose /\ InfoQuiet
    \/ NoteTimeout /\ InfoQuiet

\* a timeout that was set fires
SpecNote == InitInfo /\ [][NextNote]_vars /\ WF_vars(NoteTimeout /\ InfoQuiet)

(***************************************************************************)
(* SpecStale: responses that arrive out of order, under a server that      *)
(* keeps the files it was not asked to delete and answers /info with the   *)
(* metadata of the URL it was sent.  library.serverFiles holds the files   *)
(* at the server, library.served the /downloads-list answers on their way  *)
(* back, page.infoUrls the URLs of the /info requests in flight.           *)
(***************************************************************************)
\* the server answers a /downloads-list request with the files it holds now
StaleServe ==
    LET held(f) == IF f \in library.serverFiles THEN << Item(f) >> ELSE << >>
        downloads == held(<< "song", ".mp3" >>)
    IN  /\ Len(library.served) < library.listInFlight
        /\ library' = [library EXCEPT !.served =
                          Append(@, [success |-> Bool(TRUE),
                                     downloads |-> Array(downloads)])]
        /\ app' = Begin(app)
        /\ last' = Handled("serve", << >>)
        /\ UNCHANGED << dlInFlight, jobs, pollInFlight >>

\* one of the answers on their way back arrives (lines 563-566)
StaleListAnswered ==
    \E k \in 1 .. Len(library.served) :
        /\ library' = [library EXCEPT
                          !.listInFlight = @ - 1,
                          !.served = SubSeq(@, 1, k - 1) \o SubSeq(@, k + 1, Len(@)),
                          !.list = displayDownloads(@, library.served[k].downloads)]
        /\ app' = Begin(app)
        /\ last' = Handled("loadDownloadsResponse", << >>)
        /\ UNCHANGED << dlInFlight, jobs, pollInFlight >>

\* the server deletes the file, if it holds it, and DELETE /delete/<filename>
\* is answered accordingly (lines 667-677)
StaleDeleteAnswered ==
    \E k \in 1 .. Len(library.deleteInFlight) :
        LET filename == library.deleteInFlight[k]
            data == IF filename \in library.serverFiles
                    THEN [success |-> Bool(TRUE), error |-> Undefined]
                    ELSE [success |-> Bool(FALSE), error |-> Str(<< "x" >>)]
            a == deleteFileResponse(Begin(app), data)
            lib == [library EXCEPT
                       !.serverFiles = @ \ { filename },
                       !.deleteInFlight = SubSeq(@, 1, k - 1) \o SubSeq(@, k + 1, Len(@))]
        IN  /\ library.listInFlight + a.listRequests <= MaxLists
            /\ app' = Left(a)
            /\ library' = Requested(deleteFileStops(lib, filename, data), a)
            /\ last' = Handled(IF Truthy(data.success) THEN "deleteFileSucceeded"
                               ELSE "deleteFileRefused", filename)
            /\ UNCHANGED << dlInFlight, jobs, pollInFlight >>

\* handleUrlInput (lines 311-318): the field now holds value
StaleHandleUrlInput ==
    \E value \in Texts :
        LET url == Trim(value)
            p == [BeginPage(page) EXCEPT !.urlField = value]
        IN  /\ isValidYouTubeUrl(url) => Len(page.infoUrls) < MaxInfo
            /\ app' = IF isValidYouTubeUrl(url)
                      THEN Left(getVideoInfoCall(Begin(app))) ELSE Begin(app)
            /\ page' = IF isValidYouTubeUrl(url)
                       THEN [fetchWithUrl(p, "/info", url) EXCEPT
                                !.requests = << >>,
                                !.infoInFlight = @ + 1,
                                !.infoUrls = Append(@, url)]
                       ELSE hideVideoInfo(p)
            /\ last' = Handled("handleUrlInput", << >>)
            /\ UNCHANGED << dlInFlight, jobs, pollInFlight >>

\* one of the /info requests in flight is answered with the metadata of its
\* URL (lines 349-354)
StaleInfoAnswered ==
    \E k \in 1 .. Len(page.infoUrls) :
        LET data == [InfoBody(Bool(TRUE), Undefined, Undefined, Undefined)
                        EXCEPT !.title = Str(page.infoUrls[k])]
        IN  /\ app' = Left(getVideoInfoResponse(Begin(app), data))
            /\ page' = [displayVideoInfo(BeginPage(page), data) EXCEPT
                           !.infoInFlight = @ - 1,
                           !.infoUrls = SubSeq(@, 1, k - 1) \o SubSeq(@, k + 1, Len(@))]
            /\ last' = Handled("getVideoInfoResponse", << >>)
            /\ UNCHANGED << dlInFlight, jobs, pollInFlight >>

NextStale ==
    \/ LibRefreshTick /\ LibQuiet
    \/ LibDelete /\ LibQuiet
    \/ StaleServe /\ LibQuiet
    \/ StaleListAnswered /\ LibQuiet
    \/ StaleDeleteAnswered /\ LibQuiet
    \/ StaleHandleUrlInput /\ InfoQuiet
    \/ StaleInfoAnswered /\ InfoQuiet

SpecStale == Init /\ [][NextStale]_vars

(***************************************************************************)
(* Claims.                                                                 *)
(***************************************************************************)
\* C1: for every job, the terminal handling of monitorProgress (interval
\* cleared, notification shown, button enabled, grace timeout set) runs at
\* most once, also when several /progress requests of the job are in flight
\* and more than one of them is answered with a terminal body.
C1_TerminalHandlingOnce == \A j \in Jobs : terminalRuns[j] <= 1

\* C2: in every reachable state at most one interval created by
\* monitorProgress is active.
C2_AtMostOnePoller == Cardinality(app.intervals) <= 1

\* C3: once the terminal response of the job submitted last has been handled
\* (and no submission is under way), no interval is active, so no further
\* /progress request is sent.
C3_NoLeakedInterval ==
    (jobs > 0 /\ dlInFlight = 0 /\ terminalRuns[jobs] > 0) => app.intervals = {}

\* C7: from the terminal handling of a job until a grace timeout set for that
\* job has fired, the progress section is visible and the stored job id is set.
C7_GraceDelayKept ==
    \A j \in Jobs :
        (terminalRuns[j] > 0 /\ ~graceElapsed[j]) =>
            (~app.progressSectionHidden /\ app.currentDownloadId /= Null)

\* C9: whenever a /download-mp3 request is in flight, or a job has been
\* accepted whose terminal response has not been handled, the download
\* button is disabled.
C9_ButtonDisabledDuringJob ==
    (dlInFlight > 0 \/ \E j \in 1 .. jobs : terminalRuns[j] = 0)
        => app.downloadBtnDisabled

\* C10: when every request is answered and every job ends at the server, the
\* page comes back to the idle state again and again: button enabled, spinner
\* and progress section hidden, no interval active, no stored job id.
C10_ReturnsToIdle ==
    []<>(/\ ~app.downloadBtnDisabled
         /\ app.loadingSpinnerHidden
         /\ app.progressSectionHidden
         /\ app.intervals = {}
         /\ app.currentDownloadId = Null)

\* C4: a step in which a /progress request fails leaves the active intervals,
\* the button and the stored job id as they were and shows no notification;
\* and an interval stops only in a step that handles a body with finished
\* true (for the page fed the status shape: status completed or error).
C4_FailedPollKeepsPolling ==
    [][ /\ (Sum(pollInFlight') < Sum(pollInFlight) /\ last' = << >>) =>
             /\ app'.intervals = app.intervals
             /\ app'.progressInterval = app.progressInterval
             /\ app'.downloadBtnDisabled = app.downloadBtnDisabled
             /\ app'.currentDownloadId = app.currentDownloadId
             /\ app'.notified = << >>
        /\ app'.intervals /= app.intervals /\ app'.intervals \subseteq app.intervals =>
             Len(last') = 2 /\ Truthy(last'[1].finished)
        /\ twin'.intervals /= twin.intervals /\ twin'.intervals \subseteq twin.intervals =>
             /\ Len(last') = 2
             /\ last'[2].status \in { Str(<< "completed" >>), Str(<< "error" >>) }
      ]_vars

\* a /progress request has just failed while the poller is polling: the
\* interval is active, the button disabled, the job id stored
C4_Witness ==
    /\ app.consoleErrors > 0
    /\ app.notified = << >>
    /\ app.intervals /= {}
    /\ app.downloadBtnDisabled
    /\ app.currentDownloadId /= Null

\* C5: right after a /progress body with finished true and a non-empty error
\* is handled, the status line reads "Error occurred", the only notification
\* is the failure with the server's message, and no /downloads-list request
\* has been sent.
C5_FinishedWithErrorIsError ==
    (Len(last) = 2 /\ last[1].finished = Bool(TRUE) /\ Truthy(last[1].error)) =>
        /\ app.progressStatus = "Error occurred"
        /\ app.notified =
               << [type |-> "error",
                   msg |-> << "Download failed: " >> \o ToStr(last[1].error)] >>
        /\ app.listRequests = 0

\* a body with finished true and error "x" has just been handled by a page
\* that was polling
C5_Witness ==
    /\ Len(last) = 2
    /\ last[1].finished = Bool(TRUE)
    /\ last[1].error = Str(<< "x" >>)
    /\ app.handles > 0
    /\ app.progressStatus = "Error occurred"

\* C6: a page fed bodies of the finished shape and a page fed the status
\* shape that says the same are always in the same phase (in progress,
\* completed, error) and agree on everything the terminal handling touches:
\* active intervals, notifications, button, grace timeouts, /downloads-list
\* requests, progress section, stored job id.
C6_ShapesEquivalent ==
    LET Phase(a) ==
            IF a.progressStatus = "Completed!" THEN "completed"
            ELSE IF a.progressStatus = "Error occurred" THEN "error"
            ELSE IF a.progressStatus = "" THEN "idle"
            ELSE "in-progress"
    IN  /\ Phase(app) = Phase(twin)
        /\ app.intervals = twin.intervals
        /\ app.progressInterval = twin.progressInterval
        /\ app.handles = twin.handles
        /\ app.notified = twin.notified
        /\ app.downloadBtnDisabled = twin.downloadBtnDisabled
        /\ app.timeouts = twin.timeouts
        /\ app.listRequests = twin.listRequests
        /\ app.progressSectionHidden = twin.progressSectionHidden
        /\ app.loadingSpinnerHidden = twin.loadingSpinnerHidden
        /\ app.currentDownloadId = twin.currentDownloadId
        /\ app.consoleErrors = twin.consoleErrors

\* both pages have just completed a job, one on finished true without error,
\* the other on status completed: interval cleared, library refreshed
C6_Witness ==
    /\ Len(last) = 2
    /\ last[1].finished = Bool(TRUE)
    /\ last[2].status = Str(<< "completed" >>)
    /\ app.listRequests = 1 /\ twin.listRequests = 1
    /\ app.handles > 0 /\ app.intervals = {} /\ twin.intervals = {}

\* C8: a step in which startDownload ends in failure (a /download-mp3
\* request is answered without a job being created: success false, or no
\* answer at all) leaves the button enabled, starts no interval and does not
\* change the stored job id.
C8_FailureReenablesButton ==
    [][ (dlInFlight' < dlInFlight /\ jobs' = jobs) =>
            /\ ~app'.downloadBtnDisabled
            /\ app'.handles = app.handles
            /\ app'.intervals = app.intervals
            /\ app'.progressInterval = app.progressInterval
            /\ app'.currentDownloadId = app.currentDownloadId
      ]_vars

\* the server has just answered success false without an error field and
\* startDownload has returned
C8_Witness ==
    /\ Len(last) = 1
    /\ last[1].success = Bool(FALSE)
    /\ last[1].error = Undefined
    /\ ~app.downloadBtnDisabled
    /\ app.loadingSpinnerHidden


\* C11: every /info and /download-mp3 request a handler sends carries a URL
\* that isValidYouTubeUrl accepts, whichever handler it is (paste timeout,
\* input, clipboard check, Enter, button); and a startDownload that rejects
\* the field sends nothing and leaves button, spinner, stored job id and
\* intervals as they were.
C11_RejectedUrlStaysLocal ==
    [][ /\ \A i \in 1 .. Len(page'.requests) :
               isValidYouTubeUrl(page'.requests[i].url)
        /\ (last' = Handled("startDownload", << >>)
                /\ startDownloadRejects(page.urlField)) =>
               /\ page'.requests = << >>
               /\ dlInFlight' = dlInFlight
               /\ app'.downloadBtnDisabled = app.downloadBtnDisabled
               /\ app'.loadingSpinnerHidden = app.loadingSpinnerHidden
               /\ app'.currentDownloadId = app.currentDownloadId
               /\ app'.progressInterval = app.progressInterval
               /\ app'.intervals = app.intervals
      ]_vars

\* startDownload has just rejected a field that holds a URL of another site
C11_Witness ==
    /\ last = Handled("startDownload", << >>)
    /\ page.urlField = << "https://", "example.com", "/", "ID" >>
    /\ page.requests = << >>
    /\ app.notified = << [type |-> "error", msg |-> << "Please enter a valid YouTube URL" >>] >>

\* C16: whenever a /info or a /download-mp3 request is in flight, the
\* loading spinner is visible.
C16_SpinnerWhileInFlight ==
    (page.infoInFlight > 0 \/ dlInFlight > 0) => ~app.loadingSpinnerHidden


\* C13: for the error message of a refused submission, startDownload and
\* getVideoInfo show a message of the same kind: both the authentication
\* text, both the private/unavailable text, both the invalid-URL text, or
\* both the server's message verbatim.
C13_SameClassification ==
    LET d == last[1].data
        Shown(r) == r.st.notified[Len(r.st.notified)].msg
        Kind(msg) ==
            IF msg \in { << "YouTube is requiring authentication for this video. The app is using cookies but this video may be restricted." >>,
                         << "YouTube is requiring authentication for this video. Some videos require cookies to download." >>,
                         << "YouTube is requiring authentication. The app is using cookies but this video may still be restricted." >>,
                         << "YouTube is requiring authentication. Some videos may not be accessible without cookies." >> }
            THEN "authentication"
            ELSE IF msg = << "This video is private or unavailable." >> THEN "private"
            ELSE IF msg = << "Please enter a valid YouTube URL." >> THEN "invalid-url"
            ELSE IF msg = d.error.v THEN "verbatim"
            ELSE "other"
    IN  (/\ Len(last) = 1
         /\ last[1].op = "startDownloadResponse"
         /\ d.success = Bool(FALSE)
         /\ d.error.t = "string"
         /\ ~startDownloadRefused(InitApp, d).threw) =>
            Kind(Shown(startDownloadRefused(InitApp, d)))
                = Kind(Shown(getVideoInfoRefused(InitApp, d)))

\* C14: right after a submission is refused with an error message that
\* contains "already been downloaded" and names the existing file, the
\* already-downloaded notification for that file has been shown.
C14_AlreadyDownloadedShown ==
    (/\ Len(last) = 1
     /\ last[1].op = "startDownloadResponse"
     /\ last[1].data.success = Bool(FALSE)
     /\ last[1].data.error.t = "string"
     /\ Includes(last[1].data.error, "already been downloaded")
     /\ last[1].data.existing_file.t = "string") =>
        \E i \in 1 .. Len(app.notified) :
            app.notified[i] = [type |-> "already-downloaded",
                               msg |-> last[1].data.existing_file.v]

\* C15: the connectivity message is shown only by a handler whose request
\* failed; a handler that got a JSON body with success = false never shows it.
C15_ConnectivityMessageOnlyOnTransportFailure ==
    (\E i \in 1 .. Len(app.notified) :
        app.notified[i].msg =
            << "Network error. Please check your connection and try again." >>) =>
        (Len(last) = 1 /\ last[1].op \in { "getVideoInfoCatch", "startDownloadCatch" })


\* C12: a successful delete of F stops and hides the player when F is the
\* file loaded in it, and leaves the player alone when another file is
\* loaded, one whose name contains F included; a delete that failed or was
\* declined leaves the player alone.
C12_DeleteStopsOnlyTheLoadedFile ==
    [][LET op == last'[1].op
           F == last'[1].data
           untouched == /\ library'.playerPaused = library.playerPaused
                        /\ library'.playerSectionHidden = library.playerSectionHidden
                        /\ library'.playerSrc = library.playerSrc
       IN  /\ op = "deleteFileSucceeded" =>
                 IF library.playerSrc = resolveUrl(<< "/play-audio/" >> \o F)
                 THEN library'.playerPaused /\ library'.playerSectionHidden
                 ELSE untouched
           /\ op \in { "deleteFileRefused", "deleteFileCatch", "deleteFileDeclined" } =>
                 untouched]_vars

\* C17: a /downloads-list request is in flight after load; the 30-second
\* tick, every DELETE answered with success and every /progress answer that
\* says the job completed send one; a /progress answer that says the job
\* failed sends none.
C17_RefreshTriggers ==
    /\ library.listInFlight = 1
    /\ [][LET op == last'[1].op
              sent == library'.listInFlight - library.listInFlight
          IN  /\ op \in { "refreshTick", "deleteFileSucceeded" } => sent = 1
              /\ op = "progressResponse" /\ last'[1].data = "completed" => sent = 1
              /\ op = "progressResponse" /\ last'[1].data = "error" => sent = 0]_vars

\* a delete has succeeded with the request of its refresh in flight
C17_Witness ==
    /\ last /= << >>
    /\ last[1].op = "deleteFileSucceeded"
    /\ library.listInFlight > 0
    /\ jobs > 0

\* C18: after displayDownloads the list is the placeholder alone when the
\* array is missing or empty, and otherwise one entry per item, in the
\* order of the array, each with Play, Download and Delete controls that
\* call playFile, downloadFile and deleteFile with the filename of the item.
C18_ListRendersItsItems ==
    (calc /= << >> /\ calc[1].f = "displayDownloads") =>
        LET d == calc[1].in
            list == library.list
            bound(control, f, filename) ==
                /\ control.t = "call"
                /\ control.f = f
                /\ control.arguments[1] = filename
        IN  IF d = Undefined \/ Len(d.v) = 0
            THEN list.placeholder /\ list.entries = << >>
            ELSE /\ ~list.placeholder
                 /\ Len(list.entries) = Len(d.v)
                 /\ \A i \in 1 .. Len(d.v) :
                        /\ list.entries[i].name = d.v[i].name
                        /\ bound(list.entries[i].play, "playFile", d.v[i].filename)
                        /\ bound(list.entries[i].download, "downloadFile", d.v[i].filename)
                        /\ bound(list.entries[i].delete, "deleteFile", d.v[i].filename)

C20_FormatViews ==
    (calc /= << >> /\ calc[1].f = "formatViews") =>
        LET v == calc[1].in
            out == calc[1].out
            shown == IF out.t = "number" THEN NumberToString(out.v) ELSE out.v
            Tenths(whole, part, d, suffix) ==
                \E n \in 10 * whole .. 10 * whole + 10 :
                    LET m == n - 10 * whole
                        e == d \div 10
                    IN  /\ out = Str(NumberToString(n \div 10) \o << "." >>
                                         \o NumberToString(n % 10) \o << suffix >>)
                        /\ 2 * part - 2 * e * m <= e
                        /\ 2 * e * m - 2 * part <= e
            Is(b, u, text) == (v = [billions |-> b, units |-> u]) => shown = text
        IN  /\ IF v.billions >= 1
               THEN Tenths(v.billions, v.units, 1000000000, "B")
               ELSE IF v.units >= 1000000
               THEN Tenths(v.units \div 1000000, v.units % 1000000, 1000000, "M")
               ELSE IF v.units >= 1000
               THEN Tenths(v.units \div 1000, v.units % 1000, 1000, "K")
               ELSE out = Num(v.units)
            /\ Is(0, 999, << "9", "9", "9" >>)
            /\ Is(0, 1500, << "1", ".", "5", "K" >>)
            /\ Is(0, 2300000, << "2", ".", "3", "M" >>)
            /\ Is(4, 0, << "4", ".", "0", "B" >>)

\* 4000000000 views have been formatted
C20_Witness ==
    /\ calc /= << >>
    /\ calc[1].f = "formatViews"
    /\ calc[1].in = [billions |-> 4, units |-> 0]
    /\ calc[1].out = Str(<< "4", ".", "0", "B" >>)

\* C21: every notification shown leaves the document: it is taken out at
\* most once, by its close button or by its timeout (5 s, 8 s for the
\* already-downloaded notification), a timeout after the close button
\* changes nothing, and each call adds an element of its own.
C21_NotificationsRemoved ==
    /\ [](\A i \in 1 .. Len(page.notifications) :
             LET n == page.notifications[i]
             IN  /\ n.removed <= 1
                 /\ n.parentNode => n.timeout /\ n.removed = 0
                 /\ n.delay = IF n.className = "notification" THEN 5000 ELSE 8000)
    /\ [][LET op == last'[1].op
          IN  /\ op \in { "showNotification", "showAlreadyDownloaded" } =>
                    /\ Len(page'.notifications) = Len(page.notifications) + 1
                    /\ SubSeq(page'.notifications, 1, Len(page.notifications))
                           = page.notifications
                    /\ page'.notifications[Len(page'.notifications)].parentNode
              /\ (op = "timeout" /\ ~page.notifications[last'[1].data].parentNode) =>
                    \A i \in 1 .. Len(page.notifications) :
                        /\ page'.notifications[i].parentNode
                               = page.notifications[i].parentNode
                        /\ page'.notifications[i].removed
                               = page.notifications[i].removed]_vars
    /\ \A i \in 1 .. MaxNotes :
           (Len(page.notifications) >= i)
               ~> (Len(page.notifications) >= i /\ ~page.notifications[i].parentNode)

\* two notifications with the same text were shown; one was closed by hand
\* before its timeout fired, the other was taken out by its timeout
C21_Witness ==
    /\ Len(page.notifications) = 2
    /\ page.notifications[1].text = page.notifications[2].text
    /\ \A i \in 1 .. 2 :
           /\ ~page.notifications[i].parentNode
           /\ ~page.notifications[i].timeout
           /\ page.notifications[i].removed = 1
    /\ last = Handled("timeout", 1)

C23_DeleteOnlyWhenConfirmed ==
    [][LET op == last'[1].op
           playback == << library.playerSrc, library.playerPaused,
                          library.playerSectionHidden, library.nowPlayingTitle >>
           playbackAfter == << library'.playerSrc, library'.playerPaused,
                               library'.playerSectionHidden, library'.nowPlayingTitle >>
           norefresh == /\ app'.listRequests = 0
                        /\ library'.listInFlight = library.listInFlight
                        /\ library'.list = library.list
       IN  /\ Len(library'.deleteInFlight) > Len(library.deleteInFlight) =>
                 op = "deleteFile"
           /\ op = "deleteFile" =>
                 library'.deleteInFlight = Append(library.deleteInFlight, last'[1].data)
           /\ op = "deleteFileDeclined" =>
                 /\ library'.deleteInFlight = library.deleteInFlight
                 /\ norefresh
                 /\ app'.notified = << >>
                 /\ playbackAfter = playback
           /\ op \in { "deleteFileRefused", "deleteFileCatch" } =>
                 /\ norefresh
                 /\ playbackAfter = playback]_vars

\* the DELETE of the file that is playing was answered without success
C23_Witness ==
    /\ last /= << >>
    /\ last[1].op = "deleteFileRefused"
    /\ ~library.playerPaused
    /\ library.playerSrc = resolveUrl(<< "/play-audio/" >> \o last[1].data)

\* C24: while an interval of monitorProgress is active the stored job id is
\* not null and the progress section is visible, and a /progress request in
\* flight carries the id of a job that was submitted.
C24_GraceTimerSparesLaterJob ==
    /\ app.intervals /= {} =>
           /\ app.currentDownloadId /= Null
           /\ ~app.progressSectionHidden
    /\ pollInFlight[Null] = 0

\* C25: once the terminal response of the job submitted last has been
\* handled and the progress display says 'Completed!' or 'Error occurred',
\* a response of that job that arrives afterwards leaves a terminal status
\* in the display and does not lower the progress shown.
C25_TerminalDisplayStays ==
    [][\A j \in Jobs :
           (/\ j = jobs
            /\ terminalRuns[j] > 0
            /\ app.progressStatus \in { "Completed!", "Error occurred" }
            /\ pollInFlight'[j] < pollInFlight[j]) =>
               /\ app'.progressStatus \in { "Completed!", "Error occurred" }
               /\ (app.progressFill.t = "number" /\ app'.progressFill.t = "number") =>
                      app'.progressFill.v >= app.progressFill.v]_vars

\* C26: once a file was deleted at the server and every /downloads-list
\* request has been answered, no entry of the rendered list is that file.
C26_DeletedFileNotListed ==
    library.listInFlight = 0 =>
        \A i \in 1 .. Len(library.list.entries) :
            LET c == library.list.entries[i].delete
            IN  c.t = "call" => c.arguments[1] \in library.serverFiles

\* C27: once every /info request has been answered, the preview is hidden
\* when the field holds no valid link, and otherwise, if shown, shows the
\* metadata of the link in the field.
C27_PreviewMatchesInput ==
    page.infoUrls = << >> =>
        LET url == Trim(page.urlField)
        IN  IF isValidYouTubeUrl(url)
            THEN ~page.videoInfoHidden => page.videoTitle = Str(url)
            ELSE page.videoInfoHidden

=============================================================================
